---------------------------- MODULE Spec2Model ----------------------------
(***************************************************************************)
(* Model of the remote row-store protocol of the KETI storage engine      *)
(* handler (src/ha_keti.cc): write_row, rnd_init, rnd_next, rnd_end, the  *)
(* hooks the engine does not support, and the sockets they open.  Bytes   *)
(* are naturals 0..255, C strings are sequences of bytes, a file          *)
(* descriptor is the index of a socket in the process' socket table.      *)
(***************************************************************************)
EXTENDS Integers, Sequences, FiniteSets, TLC

VARIABLES
  socks,          \* the process' socket table: fd |-> [st, kind, h]
  rx,             \* fd |-> bytes the peer has sent that are not yet received,
                  \* kept for the descriptors a handle still holds
  client_sockfd,  \* handle |-> member ha_keti::client_sockfd
  reclength,      \* table->s->reclength, fixed when the table is opened
  last,           \* handle |-> what the host's last finished call did, if it was a call
                  \* on the handle
  hist,           \* handle |-> the return codes of the scan steps since rnd_init
  peer,           \* handle |-> how the peer has answered the scan so far
  io,             \* handle |-> the bytes that call put on the wire and what its
                  \* recv returned
  pending,        \* handle |-> the hook the handle is blocked in, or "none"
  faulty          \* whether the peer and the transport of this run may
                  \* misbehave: partial sends and reads, failed reads, a closed
                  \* or silent peer, frames that are no reply, token bytes left
                  \* in a buffer

vars == <<socks, rx, client_sockfd, reclength, last, hist, peer, io, pending, faulty>>

----------------------------------------------------------------------------
(* Bounds of the model *)

\* socket() fails once this many descriptors are in use
MaxSocks == 2
\* scan steps recorded (and allowed) per scan
MaxSteps == 2
\* items in the longest condition list the host pushes
MaxCond == 2

----------------------------------------------------------------------------
(* Program constants *)

HA_ERR_END_OF_FILE == 137
HA_ERR_WRONG_COMMAND == 131
\* char recvbuf[20]
RecvBufSize == 20
\* connect()/socket()/send()/recv() failure, and the handlers' failure code
Fail == 0 - 1
NoFd == 0 - 1

\* the literal "success" of both strcmp calls, without its terminator
success == <<115, 117, 99, 99, 101, 115, 115>>
\* the request opcodes "w" and "r"
OpWrite == <<119>>
OpRead == <<114>>

----------------------------------------------------------------------------
(* Helpers *)

Min(a, b) == IF a < b THEN a ELSE b
Max(a, b) == IF a > b THEN a ELSE b

\* lit as a C string: its bytes and the terminating zero
CStr(lit) == lit \o <<0>>

\* s cut or zero-padded to n bytes
Pad(s, n) == [i \in 1..n |-> IF i <= Len(s) THEN s[i] ELSE 0]

\* strcmp(mem, lit) from index i on: the difference of the first bytes that
\* differ, 0 when both strings end together
RECURSIVE strcmp_from(_, _, _)
strcmp_from(mem, cs, i) ==
  IF mem[i] # cs[i] THEN mem[i] - cs[i]
  ELSE IF cs[i] = 0 THEN 0
  ELSE strcmp_from(mem, cs, i + 1)

strcmp(mem, lit) == strcmp_from(mem, CStr(lit), 1)

\* the bytes strcmp(mem, "success") may look at
StrSpan == Len(success) + 1

\* memory after recv stored n bytes of data at its start
Store(mem, data, n) == [i \in 1..Len(mem) |-> IF i <= n THEN data[i] ELSE mem[i]]

Drop(s, n) == SubSeq(s, n + 1, Len(s))

----------------------------------------------------------------------------
(* The peer.  The server is not part of the repository: what it answers to *)
(* a request is an input.  A reply is tagged here with what the peer means *)
(* by it; on the wire there are only its bytes.                            *)

Reply(kind, tok, bytes) == [kind |-> kind, tok |-> tok, bytes |-> bytes]

\* the peer closes the stream without answering
NoReply == Reply("none", "", <<>>)

\* rows of n bytes: 1,2,..,n and the row that spells "success"
Row123(n) == [i \in 1..n |-> i]
RowSuccess(n) == Pad(success, n)
Rows(n) == {Row123(n), RowSuccess(n)}

\* the rows the host hands to write_row
WrittenRows(n) == {Row123(n)}

tok_eof == <<101, 111, 102>>
tok_error == <<101, 114, 114, 111, 114>>

\* status tokens, sent as C strings or as their bare characters
StatusReplies ==
  { Reply("status", "success", CStr(success)),
    Reply("status", "success", success),
    Reply("status", "eof", CStr(tok_eof)),
    Reply("status", "error", CStr(tok_error)) }

DataReplies(n) == { Reply("data", "", r) : r \in Rows(n) }

\* a frame that is neither a row nor a known token
MalformedReplies == { Reply("malformed", "", <<255>>) }

\* what a peer that keeps to the protocol sends: a row or a token, whole
SoundReplies(n) ==
  { Reply("data", "", Row123(n)),
    Reply("status", "success", CStr(success)),
    Reply("status", "eof", CStr(tok_eof)) }

Replies(n) ==
  IF faulty
  THEN DataReplies(n) \cup StatusReplies \cup MalformedReplies \cup {NoReply}
  ELSE SoundReplies(n)

----------------------------------------------------------------------------
(* Sockets *)

\* lengths of a short read: recv may return before the whole reply is there
ShortLens == {4}

Fill(b, n) == [i \in 1..n |-> b]

\* the memory strcmp may read from the start of a buffer of n bytes
MemLen(n) == Max(n, StrSpan)

\* what a buffer may hold before recv writes to it: bytes that are no token,
\* or the token left by an earlier call
StaleMems(n) == IF faulty THEN {Fill(120, n), Pad(success, n)} ELSE {Fill(120, n)}

IsFd(fd) == fd \in 1..Len(socks)
Connected(fd) == IsFd(fd) /\ socks[fd].st = "connected"

\* recv(fd, mem, cap, 0) with avail bytes queued on a connected socket:
\* the possible return values
RecvLens(avail, cap) ==
  IF ~faulty THEN {Min(avail, cap)}
  ELSE IF avail = 0 THEN {0, Fail}
  ELSE {Min(avail, cap), Fail} \cup {k \in ShortLens : k < Min(avail, cap)}

\* the socket after recv returned readlen: on an error or the peer's close
\* the connection is gone, the descriptor stays
StateAfterRecv(readlen) == IF readlen < 1 THEN "unconnected" ELSE "connected"

\* the unread bytes, for the descriptors that are the client_sockfd of a
\* handle: no code can read from any other descriptor again
Held(queues, fds) ==
  [fd \in 1..Len(queues) |-> IF \E h \in DOMAIN fds : fds[h] = fd THEN queues[fd] ELSE <<>>]

\* send(fd, data, len, 0) on a connected socket: the possible return values,
\* all of the data or a part of it
SendLens(len) == {len} \cup {k \in ShortLens : faulty /\ k < len}

\* the return values of the send calls of one hook, in order: on a descriptor
\* that is not a connected socket every send fails
RECURSIVE SendOutcomesFrom(_, _)
SendOutcomesFrom(sends, i) ==
  IF i > Len(sends) THEN {<<>>}
  ELSE {<<k>> \o ks : k \in SendLens(Len(sends[i])), ks \in SendOutcomesFrom(sends, i + 1)}

SendOutcomes(connected, sends) ==
  IF connected THEN SendOutcomesFrom(sends, 1)
  ELSE {[i \in 1..Len(sends) |-> Fail]}

\* the replies the peer may give: any, once it has the whole request
Answers(asked, n) == IF asked THEN Replies(n) ELSE {NoReply}

\* the bytes that reach the connection when the send calls returned ks
RECURSIVE WireFrom(_, _, _)
WireFrom(sends, ks, i) ==
  IF i > Len(sends) THEN <<>>
  ELSE SubSeq(sends[i], 1, IF ks[i] > 0 THEN ks[i] ELSE 0) \o WireFrom(sends, ks, i + 1)

Wire(sends, ks) == WireFrom(sends, ks, 1)

\* what a call put on the wire, what its recv returned, and the bytes that
\* recv stored
Io(sent, readlen, got) == [sent |-> sent, readlen |-> readlen, got |-> got]
NoIo == Io(<<>>, 0, <<>>)

\* a finished call: the hook, its return code, the descriptor it used, the reply
\* the peer gave to its request, and whether the buffer then held that reply
Call(op, rc, fd, rep, intact) ==
  [op |-> op, rc |-> rc, fd |-> fd, kind |-> rep.kind, tok |-> rep.tok,
   intact |-> intact]

----------------------------------------------------------------------------
(* State after construction *)

\* record lengths of the tables the handler is opened on
RecLengths == {8}

\* what the never initialised member client_sockfd may hold
UninitFds == {NoFd, 1}

NoCall == Call("none", 0, NoFd, NoReply, FALSE)

InitFor(H, F) ==
  /\ faulty \in F
  /\ socks = <<>>
  /\ rx = <<>>
  /\ reclength \in RecLengths
  /\ client_sockfd \in [H -> UninitFds]
  /\ last = [h \in H |-> NoCall]
  /\ hist = [h \in H |-> <<>>]
  /\ peer = [h \in H |-> "none"]
  /\ io = [h \in H |-> NoIo]
  /\ pending = [h \in H |-> "none"]

Init == InitFor({1}, {TRUE})

Handles == DOMAIN client_sockfd

\* the record of the host's last call: x for handle h, nothing for the others
Only(h, x, nothing) == [g \in Handles |-> IF g = h THEN x ELSE nothing]

----------------------------------------------------------------------------
(* recv on a descriptor *)

\* the bytes recv can take from fd once the peer has added reply
Avail(fd, bytes) == IF Connected(fd) THEN rx[fd] \o bytes ELSE <<>>

\* recv on fd: it fails on a descriptor that is no connected socket; with
\* bytes unread from before it returns at once with those, the reply to the
\* new request being still on its way
RecvOn(fd, avail, cap) ==
  IF ~Connected(fd) THEN {Fail}
  ELSE IF rx[fd] # <<>> THEN {Min(Len(rx[fd]), cap)} \cup (IF faulty THEN {Fail} ELSE {})
  ELSE RecvLens(Len(avail), cap)

Taken(readlen) == IF readlen > 0 THEN readlen ELSE 0

\* the peer's answers of a scan: "none" until the handle's first rnd_init,
\* "rows" while every request was answered by a Data Reply received whole,
\* "eof" once such rows were followed by the "eof" token received whole,
\* "off" otherwise
PeerAfter(was, rep, whole) ==
  IF was = "none" THEN "none"
  ELSE IF was = "rows" /\ whole /\ rep.kind = "data" THEN "rows"
  ELSE IF was = "rows" /\ whole /\ rep.kind = "status" /\ rep.tok = "eof" THEN "eof"
  ELSE "off"

----------------------------------------------------------------------------
(* ha_keti::rnd_init *)

NewSock(st, kind, h) == [st |-> st, kind |-> kind, h |-> h]

\* rnd_init, did it not look at what connect() returned
rnd_init_rc_unchecked(connected) == 0

\* the return code after socket() succeeded, from whether connect() did
rnd_init_rc(connected) == IF connected THEN 0 ELSE Fail

\* rnd_init, were client_sockfd one variable of the process instead of a
\* member of each handler object
rnd_init_member_global(h, fd) == [g \in Handles |-> fd]

\* the members client_sockfd after rnd_init on h got fd from socket()
rnd_init_member(h, fd) == [client_sockfd EXCEPT ![h] = fd]

rnd_init(h) ==
  \/ \* socket() fails
     /\ pending[h] = "none"
     /\ client_sockfd' = rnd_init_member(h, NoFd)
     /\ rx' = Held(rx, client_sockfd')
     /\ last' = Only(h, Call("rnd_init", Fail, NoFd, NoReply, FALSE), NoCall)
     /\ hist' = [hist EXCEPT ![h] = <<>>]
     /\ peer' = [peer EXCEPT ![h] = "off"]
     /\ io' = Only(h, NoIo, NoIo)
     /\ UNCHANGED <<socks, faulty, reclength, pending>>
  \/ /\ pending[h] = "none"
     /\ Len(socks) < MaxSocks
     /\ \E connected \in BOOLEAN :
          LET fd == Len(socks) + 1
              rc == rnd_init_rc(connected)
          IN /\ socks' = Append(socks,
                   NewSock(IF connected THEN "connected" ELSE "unconnected", "scan", h))
             /\ client_sockfd' = rnd_init_member(h, fd)
             /\ rx' = Held(Append(rx, <<>>), client_sockfd')
             /\ last' = Only(h, Call("rnd_init", rc, fd, NoReply, FALSE), NoCall)
             /\ hist' = [hist EXCEPT ![h] = <<>>]
             /\ peer' = [peer EXCEPT ![h] = IF connected THEN "rows" ELSE "off"]
             /\ io' = Only(h, NoIo, NoIo)
             /\ UNCHANGED <<faulty, reclength, pending>>

----------------------------------------------------------------------------
(* ha_keti::rnd_end *)

\* rnd_end, did it close the scan's socket and return what close() returned
rnd_end_rc_of_close(h) == IF IsFd(client_sockfd[h]) THEN 0 ELSE Fail

\* the return code of rnd_end: the function body is "return 0"
rnd_end_rc(h) == 0

rnd_end(h) ==
  /\ pending[h] = "none"
  /\ last' = Only(h, Call("rnd_end", rnd_end_rc(h), client_sockfd[h], NoReply, FALSE),
                  NoCall)
  /\ io' = Only(h, NoIo, NoIo)
  /\ UNCHANGED <<socks, rx, client_sockfd, faulty, reclength, hist, peer, pending>>

----------------------------------------------------------------------------
(* ha_keti::rnd_next *)

\* the return code, from what recv returned and left in the buffer
rnd_next_rc(mem, readlen) ==
  IF readlen < 1 THEN Fail
  ELSE IF strcmp(mem, success) # 0 THEN Fail
  ELSE HA_ERR_END_OF_FILE

\* rnd_next, did it send its request a second time
rnd_next_sends_again == <<OpRead, OpRead>>

\* the send calls of one rnd_next: the opcode, once
rnd_next_sends == <<OpRead>>

rnd_next(h) ==
  /\ pending[h] = "none"
  /\ Len(hist[h]) < MaxSteps
  /\ LET fd == client_sockfd[h] IN
     \E ks \in SendOutcomes(Connected(fd), rnd_next_sends) :
     \E rep \in Answers(Wire(rnd_next_sends, ks) = OpRead, reclength),
        stale \in StaleMems(MemLen(reclength)) :
       LET sent == Wire(rnd_next_sends, ks)
           avail == Avail(fd, rep.bytes)
       IN    \/ \* recv returns
                \E readlen \in RecvOn(fd, avail, reclength) :
                  LET n == Taken(readlen)
                      mem == Store(stale, avail, n)
                      rc == rnd_next_rc(mem, readlen)
                      whole == n = Len(avail) /\ avail = rep.bytes
                      intact == whole /\ SubSeq(mem, 1, n) = rep.bytes
                  IN /\ IF Connected(fd)
                        THEN /\ rx' = [rx EXCEPT ![fd] =
                                         IF readlen = Fail THEN <<>> ELSE Drop(avail, n)]
                             /\ socks' = [socks EXCEPT ![fd].st = StateAfterRecv(readlen)]
                        ELSE UNCHANGED <<socks, rx>>
                     /\ last' = Only(h, Call("rnd_next", rc, fd, rep, intact), NoCall)
                     /\ hist' = [hist EXCEPT ![h] = Append(@, rc)]
                     /\ peer' = [peer EXCEPT ![h] = PeerAfter(@, rep, whole)]
                     /\ io' = Only(h, Io(sent, readlen, SubSeq(avail, 1, n)), NoIo)
                     /\ UNCHANGED <<client_sockfd, faulty, reclength, pending>>
             \/ \* nothing arrives and the peer keeps the connection: recv has
                \* no timeout and does not return
                /\ Connected(fd)
                /\ avail = <<>>
                /\ pending' = [pending EXCEPT ![h] = "rnd_next"]
                /\ UNCHANGED <<socks, rx, client_sockfd, faulty, reclength, last, hist, peer, io>>

----------------------------------------------------------------------------
(* ha_keti::write_row *)

\* the return code, from what recv returned and left in recvbuf
write_row_rc(recvbuf, readlen) ==
  IF readlen < 1 THEN Fail
  ELSE IF strcmp(recvbuf, success) # 0 THEN Fail
  ELSE 0

\* the send calls of one write_row: the opcode, then the row
write_row_sends(row) == <<OpWrite, row>>

\* write_row, had it no local client_sockfd: the descriptor goes to the member
write_row_member_shared(h, fd) == [client_sockfd EXCEPT ![h] = fd]

\* the member client_sockfd after write_row used descriptor fd: write_row
\* declares a local of the same name and leaves the member alone
write_row_member(h, fd) == client_sockfd

write_row(h) ==
  \/ \* socket() fails
     /\ pending[h] = "none"
     /\ last' = Only(h, Call("write_row", Fail, NoFd, NoReply, FALSE), NoCall)
     /\ io' = Only(h, NoIo, NoIo)
     /\ UNCHANGED <<socks, rx, client_sockfd, faulty, reclength, hist, peer, pending>>
  \/ \* connect() fails
     /\ pending[h] = "none"
     /\ Len(socks) < MaxSocks
     /\ socks' = Append(socks, NewSock("unconnected", "write", h))
     /\ client_sockfd' = write_row_member(h, Len(socks) + 1)
     /\ rx' = Held(Append(rx, <<>>), client_sockfd')
     /\ last' = Only(h,
                   Call("write_row", Fail, Len(socks) + 1, NoReply, FALSE), NoCall)
     /\ io' = Only(h, NoIo, NoIo)
     /\ UNCHANGED <<faulty, reclength, hist, peer, pending>>
  \/ /\ pending[h] = "none"
     /\ Len(socks) < MaxSocks
     /\ \E row \in WrittenRows(reclength) :
        \E ks \in SendOutcomes(TRUE, write_row_sends(row)) :
        \E rep \in Answers(Wire(write_row_sends(row), ks) = OpWrite \o row, reclength),
           stale \in StaleMems(RecvBufSize) :
               LET fd == Len(socks) + 1
                   sent == Wire(write_row_sends(row), ks)
                   avail == rep.bytes
               IN /\ client_sockfd' = write_row_member(h, fd)
                  /\ \/ \* recv returns
                        \E readlen \in RecvLens(Len(avail), RecvBufSize) :
                          LET n == Taken(readlen)
                              recvbuf == Store(stale, avail, n)
                              rc == write_row_rc(recvbuf, readlen)
                              whole == n = Len(avail)
                          IN /\ socks' = Append(socks,
                                   NewSock(StateAfterRecv(readlen), "write", h))
                             /\ rx' = Held(Append(rx, IF readlen = Fail THEN <<>>
                                                      ELSE Drop(avail, n)),
                                           client_sockfd')
                             /\ last' = Only(h,
                                           Call("write_row", rc, fd, rep, whole), NoCall)
                             /\ io' = Only(h, Io(sent, readlen, SubSeq(avail, 1, n)), NoIo)
                             /\ UNCHANGED <<faulty, reclength, hist, peer, pending>>
                     \/ \* nothing arrives and the peer keeps the connection:
                        \* recv has no timeout and does not return
                        /\ avail = <<>>
                        /\ socks' = Append(socks, NewSock("connected", "write", h))
                        /\ rx' = Held(Append(rx, <<>>), client_sockfd')
                        /\ pending' = [pending EXCEPT ![h] = "write_row"]
                        /\ UNCHANGED <<faulty, reclength, last, hist, peer, io>>

----------------------------------------------------------------------------
(* The hooks the engine does not support *)

UnsupportedHooks ==
  {"update_row", "delete_row", "index_read_map", "index_next", "index_prev",
   "index_first", "index_last", "rnd_pos", "delete_all_rows", "rename_table"}

\* the hooks, did rename_table report success as the hooks around it do
unsupported_rc_rename_ok(hook) ==
  IF hook = "rename_table" THEN 0 ELSE HA_ERR_WRONG_COMMAND

\* the return code of an unsupported hook
unsupported_rc(hook) == HA_ERR_WRONG_COMMAND

\* the ten hooks have one body, and the record of the last call keeps what
\* the call returned, not which of them it was
unsupported(h, hook) ==
  /\ pending[h] = "none"
  /\ last' = Only(h, Call("unsupported", unsupported_rc(hook), NoFd, NoReply, FALSE),
                  NoCall)
  /\ io' = Only(h, NoIo, NoIo)
  /\ UNCHANGED <<socks, rx, client_sockfd, faulty, reclength, hist, peer, pending>>

----------------------------------------------------------------------------
(* The hooks that are implemented without the network: open, close, create *)
(* and records_in_range                                                      *)

LocalHooks == {"open", "close", "create", "records_in_range"}

\* the values a hook can return: open returns 1 when get_share() gives no
\* share and 0 otherwise, records_in_range returns 10, close and create 0
local_rc(hook) ==
  IF hook = "open" THEN {0, 1}
  ELSE IF hook = "records_in_range" THEN {10}
  ELSE {0}

local(h, hook) ==
  /\ pending[h] = "none"
  /\ \E rc \in local_rc(hook) :
       last' = Only(h, Call(hook, rc, NoFd, NoReply, FALSE), NoCall)
  /\ io' = Only(h, NoIo, NoIo)
  /\ UNCHANGED <<socks, rx, client_sockfd, faulty, reclength, hist, peer, pending>>

----------------------------------------------------------------------------
(* ha_keti::cond_push.  A condition is the head of a list of items linked  *)
(* by next_free; item k is followed by item k - 1, and item 1 by NULL.      *)

NULL == 0

\* the conditions the host pushes: NULL, or a list of up to MaxCond items
Conds == NULL..MaxCond

next_free(item) == item - 1

\* the while loop: level counts the items that have a successor
RECURSIVE cond_push_loop(_, _)
cond_push_loop(tempCond, level) ==
  IF next_free(tempCond) # NULL
  THEN cond_push_loop(next_free(tempCond), level + 1)
  ELSE [tempCond |-> tempCond, level |-> level]

\* the pointer cond_push returns
\* a pushdown that takes every condition over and hands nothing back
cond_push_result_null(cond) == NULL

cond_push_result(cond) ==
  IF cond = NULL THEN NULL
  ELSE IF cond_push_loop(cond, 0).level >= 0 THEN cond ELSE cond

cond_push(h, cond) ==
  /\ pending[h] = "none"
  /\ last' = Only(h, Call("cond_push", cond_push_result(cond), NoFd, NoReply, FALSE),
                  NoCall)
  /\ io' = Only(h, NoIo, NoIo)
  /\ UNCHANGED <<socks, rx, client_sockfd, faulty, reclength, hist, peer, pending>>

----------------------------------------------------------------------------
(* The host calls the handler's hooks in any order *)

ScanBegin == \E h \in Handles : rnd_init(h)
ScanStep == \E h \in Handles : rnd_next(h)
ScanEnd == \E h \in Handles : rnd_end(h)
Insert == \E h \in Handles : write_row(h)
Unsupported == \E h \in Handles, hook \in UnsupportedHooks : unsupported(h, hook)
Local == \E h \in Handles, hook \in LocalHooks : local(h, hook)
CondPush == \E h \in Handles, cond \in Conds : cond_push(h, cond)

Next ==
  \/ ScanBegin
  \/ ScanStep
  \/ ScanEnd
  \/ Insert
  \/ Unsupported
  \/ Local
  \/ CondPush

Spec == Init /\ [][Next]_vars

\* two handles of the same process, each running its own scans and inserts,
\* against a peer and a transport that keep to the protocol; connecting may
\* still fail
InitMulti == InitFor({1, 2}, {FALSE})

SpecMulti == InitMulti /\ [][Next]_vars

----------------------------------------------------------------------------
(* Open descriptors.  No hook closes a socket: the close() of write_row is  *)
(* commented out and rnd_end is empty, so every descriptor socket() returned *)
(* stays in the table.                                                       *)

OpenFds == 1..Len(socks)

\* the open descriptors of connections that handle h opened for a scan
ScanConnections(h) ==
  {fd \in OpenFds : socks[fd].kind = "scan" /\ socks[fd].h = h /\ socks[fd].st = "connected"}

----------------------------------------------------------------------------
(* Claims *)

\* C1: a scan step whose NEXT request the peer answers with a Data Reply of
\* one row, received whole, returns 0 ("row available"), leaves exactly the
\* row's bytes in the host's buffer and leaves the scan's connection open.
C1_DataReplyIsRowAvailable ==
  \A h \in Handles :
    (last[h].op = "rnd_next" /\ last[h].kind = "data" /\ last[h].intact)
      => (last[h].rc = 0 /\ Connected(client_sockfd[h]))

\* C2: while the peer has answered every step of a scan with a row, every
\* result of the scan is 0; once it has answered n rows and then "eof", the
\* results are n times 0 followed by one HA_ERR_END_OF_FILE.
C2_RowsThenEndOfData ==
  \A h \in Handles :
    /\ peer[h] = "rows" => \A i \in 1..Len(hist[h]) : hist[h][i] = 0
    /\ peer[h] = "eof" =>
         /\ Len(hist[h]) >= 1
         /\ \A i \in 1..(Len(hist[h]) - 1) : hist[h][i] = 0
         /\ hist[h][Len(hist[h])] = HA_ERR_END_OF_FILE

\* C3: write_row returns 0 exactly when the reply it read is the Status Reply
\* "success", received whole; every other reply, a short or empty read and
\* every transport error give a failure code.
C3_InsertOkIffSuccessToken ==
  \A h \in Handles :
    last[h].op = "write_row" =>
      /\ last[h].rc \in {0, Fail}
      /\ last[h].rc = 0 <=>
           (last[h].kind = "status" /\ last[h].tok = "success" /\ last[h].intact)

\* C4: a Data Reply is never taken for a status token, whatever its bytes:
\* a scan step that received a row does not report end of data, and an
\* insert that received a row does not report the acknowledgement.
C4_RowNeverTakenForToken ==
  \A h \in Handles :
    last[h].kind = "data" =>
      /\ last[h].op = "rnd_next" => last[h].rc # HA_ERR_END_OF_FILE
      /\ last[h].op = "write_row" => last[h].rc # 0

\* C5: a scan step whose request the peer answers with the Status Reply
\* "eof" returns HA_ERR_END_OF_FILE, also as the first step of a scan.
C5_EofTokenIsEndOfData ==
  \A h \in Handles :
    (last[h].op = "rnd_next" /\ last[h].kind = "status" /\ last[h].tok = "eof"
       /\ last[h].intact)
      => last[h].rc = HA_ERR_END_OF_FILE

\* C6: a scan step that got a Status Reply other than "eof", a malformed
\* frame, or nothing (a failed send, a failed or empty receive) returns the
\* failure code, never 0 and never HA_ERR_END_OF_FILE.
C6_OtherRepliesFail ==
  \A h \in Handles :
    (/\ last[h].op = "rnd_next"
     /\ \/ last[h].kind = "status" /\ last[h].tok # "eof"
        \/ last[h].kind \in {"malformed", "none"})
      => last[h].rc = Fail

\* C7: no socket that write_row opened is open once write_row has returned.
C7_WriteRowClosesItsSocket ==
  \A fd \in OpenFds : socks[fd].kind # "write"

\* C8: after rnd_end has returned, the handle has no open scan connection:
\* the socket that the matching rnd_init connected is closed.
C8_RndEndClosesConnection ==
  \A h \in Handles :
    last[h].op = "rnd_end" => ScanConnections(h) = {}

\* C9: a hook that opened a socket and returned the failure code has released
\* the socket.
C9_FailureReleasesSocket ==
  \A h \in Handles :
    (last[h].op \in {"rnd_init", "write_row"} /\ last[h].rc = Fail
       /\ last[h].fd # NoFd)
      => last[h].fd \notin OpenFds

\* C10: at most one scan connection opened by a handle is open.
C10_AtMostOneScanConnection ==
  \A h \in Handles : Cardinality(ScanConnections(h)) <= 1

\* a step that is a returning rnd_next on handle h
ScanStepOf(h) == Len(hist'[h]) = Len(hist[h]) + 1

\* the last call on h was a scan step that failed on an "error" token or on a
\* frame that is no reply, received whole
FailedStep(h) ==
  /\ last[h].op = "rnd_next"
  /\ last[h].rc = Fail
  /\ last[h].intact
  /\ \/ last[h].kind = "malformed"
     \/ last[h].kind = "status" /\ last[h].tok = "error"

\* C11: once a scan step has returned the failure code for a protocol error,
\* the next scan step of the same scan (no rnd_init in between, so on the same
\* connection) sends no frame and reads no reply.
C11_FailedConnectionNeverReused ==
  [][\A h \in Handles :
       (FailedStep(h) /\ ScanStepOf(h))
         => (io'[h].sent = <<>> /\ io'[h].readlen < 1)]_vars

\* C12: after a scan step has returned HA_ERR_END_OF_FILE, a further scan step
\* of the same scan sends no NEXT frame and returns no row.
C12_ExhaustedIsTerminal ==
  [][\A h \in Handles :
       (/\ last[h].op = "rnd_next" /\ last[h].rc = HA_ERR_END_OF_FILE
        /\ ScanStepOf(h))
         => (io'[h].sent = <<>> /\ last'[h].rc # 0)]_vars

\* the WRITE frames of a table: the opcode 'w' and the reclength bytes of a row
WriteFrames == {OpWrite \o row : row \in WrittenRows(reclength)}

\* C13: a write_row that put bytes on its connection put exactly one WRITE
\* frame there, the byte 'w' and reclength bytes of the row, also when send
\* took only a part; a rnd_next that put bytes on its connection put exactly
\* the byte 'r'.
C13_RequestFramingExact ==
  \A h \in Handles :
    /\ (last[h].op = "write_row" /\ io[h].sent # <<>>) => io[h].sent \in WriteFrames
    /\ (last[h].op = "rnd_next" /\ io[h].sent # <<>>) => io[h].sent = OpRead

\* bytes of an earlier reply are unread on the connection of h's scan
Unread(h) == Connected(client_sockfd[h]) /\ rx[client_sockfd[h]] # <<>>

\* C14: a scan step whose recv delivered at least one but fewer than reclength
\* bytes of a row returns the failure code, and a scan step that finds the
\* unread rest of an earlier reply on its connection does not read it as the
\* reply to its own request.
C14_ShortReadIsFailure ==
  [][\A h \in Handles :
       ScanStepOf(h) =>
         /\ (/\ ~Unread(h)
             /\ last'[h].kind = "data"
             /\ io'[h].readlen > 0 /\ io'[h].readlen < reclength)
              => last'[h].rc = Fail
         /\ Unread(h) => io'[h].readlen < 1]_vars

\* what the scan steps of handle h read and act on: the member client_sockfd,
\* the socket it names with its unread bytes, and the scan's results so far
ScanView(h) ==
  <<client_sockfd[h],
    IF IsFd(client_sockfd[h])
    THEN <<socks[client_sockfd[h]], rx[client_sockfd[h]]>>
    ELSE <<>>,
    hist[h], peer[h], reclength>>

\* a step that is a write_row on handle h, returning or blocking
InsertOf(h) ==
  \/ last'[h].op = "write_row" /\ pending' = pending
  \/ pending[h] = "none" /\ pending'[h] = "write_row"

\* C15: a write_row on a handle whose scan has begun leaves the member
\* client_sockfd, the scan's socket with its unread bytes and the scan's results
\* as they were, and the descriptor it used is none that existed before.
C15_InsertLeavesScanAlone ==
  [][\A h \in Handles :
       (InsertOf(h) /\ peer[h] # "none") =>
          /\ ScanView(h)' = ScanView(h)
          /\ pending'[h] = "none" => last'[h].fd \notin 1..Len(socks)]_vars

\* a write_row has returned 0 on a handle whose scan is on an open connection
\* and has made a step
C15_Witness ==
  \E h \in Handles :
    /\ last[h].op = "write_row" /\ last[h].rc = 0
    /\ Connected(client_sockfd[h]) /\ last[h].fd # client_sockfd[h]
    /\ Len(hist[h]) = 1

\* a step that is a call on handle h, returning or blocking
CallOf(h) == last'[h].op # "none" \/ pending'[h] # pending[h]

C17_EveryCallReturns ==
  \A h \in Handles : pending[h] = "none"

IsPrefix(p, s) == Len(p) <= Len(s) /\ p = SubSeq(s, 1, Len(p))

C19_ScanBeginResult ==
  \A h \in Handles :
    last[h].op = "rnd_init" =>
      /\ last[h].rc \in {0, Fail}
      /\ last[h].rc = 0 <=> Connected(last[h].fd)
      /\ last[h].rc = 0 =>
           /\ client_sockfd[h] = last[h].fd
           /\ socks[last[h].fd].kind = "scan" /\ socks[last[h].fd].h = h
      /\ (last[h].rc = Fail /\ pending[h] = "none" /\ Len(socks) < MaxSocks) =>
           ENABLED (rnd_init(h) /\ last'[h].rc = 0)

\* a rnd_init has returned 0 after an earlier rnd_init whose connect() failed
C19_Witness ==
  \E h \in Handles :
    /\ last[h].op = "rnd_init" /\ last[h].rc = 0
    /\ \E fd \in OpenFds :
         /\ fd < last[h].fd
         /\ socks[fd].kind = "scan" /\ socks[fd].st = "unconnected"

\* what the call of an unsupported hook on handle h does: it returns
\* HA_ERR_WRONG_COMMAND, uses no descriptor, puts no byte on the wire and
\* reads none, and leaves the sockets, the unread bytes, the member
\* client_sockfd, the scan's results and every handle's calls as they were
NoProtocolAction(h) ==
  /\ last'[h].rc = HA_ERR_WRONG_COMMAND
  /\ last'[h].fd = NoFd
  /\ io'[h] = NoIo
  /\ UNCHANGED <<socks, rx, client_sockfd, hist, peer, pending>>

\* C20: in every state each unsupported hook can be called on every handle
\* that is in no call, and no call of it does anything but return
\* HA_ERR_WRONG_COMMAND without a protocol action.
C20_UnsupportedHooks ==
  \A h \in Handles, hook \in UnsupportedHooks :
    pending[h] = "none" =>
      /\ ENABLED unsupported(h, hook)
      /\ ~ENABLED (unsupported(h, hook) /\ ~NoProtocolAction(h))

\* an unsupported hook has returned during a scan that is on an open
\* connection and has made a step
C20_Witness ==
  \E h \in Handles :
    /\ last[h].op = "unsupported"
    /\ Connected(client_sockfd[h]) /\ socks[client_sockfd[h]].kind = "scan"
    /\ hist[h] # <<>>

\* what a call of rnd_end on handle h does: it returns 0, puts no byte on the
\* wire, and leaves every socket, the unread bytes, the member client_sockfd
\* and the scan's results as they were
EndsScan(h) ==
  /\ last'[h].op = "rnd_end" /\ last'[h].rc = 0
  /\ io'[h] = NoIo
  /\ UNCHANGED <<socks, rx, client_sockfd, hist, peer, pending>>

\* C21: in every state rnd_end can be called on a handle that is in no call
\* and every call of it returns 0 and changes no socket; called right after a
\* rnd_end on the same handle it returns 0 again and leaves the whole state as
\* the first call left it.
C21_ScanEndIdempotent ==
  \A h \in Handles :
    pending[h] = "none" =>
      /\ ENABLED rnd_end(h)
      /\ ~ENABLED (rnd_end(h) /\ ~EndsScan(h))
      /\ last[h].op = "rnd_end" => ~ENABLED (rnd_end(h) /\ vars' # vars)

\* rnd_end has returned on a scan that had reached end of data on an open
\* connection
C21_Witness ==
  \E h \in Handles :
    /\ last[h].op = "rnd_end" /\ last[h].rc = 0
    /\ Connected(client_sockfd[h])
    /\ hist[h] # <<>> /\ hist[h][Len(hist[h])] = HA_ERR_END_OF_FILE

\* a step that is a returning rnd_end on handle h
ScanEndOf(h) == last'[h].op = "rnd_end" /\ pending' = pending

\* C22: a rnd_end that follows at once on a rnd_init that connected returns
\* 0 as the rnd_init did, no request byte has been sent, and the connection
\* that the rnd_init opened is no longer open, as before the rnd_init.
C22_BeginEndIsNoOp ==
  [][\A h \in Handles :
       (last[h].op = "rnd_init" /\ last[h].rc = 0 /\ ScanEndOf(h)) =>
          /\ last'[h].rc = 0
          /\ io[h].sent = <<>> /\ io'[h].sent = <<>>
          /\ hist'[h] = <<>>
          /\ socks'[last[h].fd].st # "connected"]_vars

\* C23: create and records_in_range are unsupported: a call of either returns
\* HA_ERR_WRONG_COMMAND and performs no protocol action (no descriptor used,
\* nothing sent, nothing received).
C23_CreateAndEstimateUnsupported ==
  \A h \in Handles :
    last[h].op \in {"create", "records_in_range"} =>
      /\ last[h].rc = HA_ERR_WRONG_COMMAND
      /\ last[h].fd = NoFd
      /\ io[h] = NoIo

\* what a call on handle h does when it performs no protocol action: it uses
\* no descriptor, puts no byte on the wire, takes none, and leaves every
\* socket, the unread bytes, the member client_sockfd and the scan as they were
Quiet(h) ==
  /\ last'[h].fd = NoFd
  /\ io'[h] = NoIo
  /\ UNCHANGED <<socks, rx, client_sockfd, hist, peer, pending, reclength>>

\* C24: in every state open, close and cond_push can be called on every handle
\* that is in no call; no call of them performs a protocol action; cond_push
\* returns for every condition list up to MaxCond items, NULL for NULL and
\* otherwise the condition it was given.
C24_OpenCloseCondPushAreQuiet ==
  \A h \in Handles :
    pending[h] = "none" =>
      /\ \A hook \in {"open", "close"} :
           /\ ENABLED local(h, hook)
           /\ ~ENABLED (local(h, hook) /\ ~Quiet(h))
      /\ \A cond \in Conds :
           /\ ENABLED cond_push(h, cond)
           /\ ~ENABLED (cond_push(h, cond)
                          /\ ~(Quiet(h) /\ last'[h].rc = cond))

\* cond_push has returned the longest condition list during a scan that is on
\* an open connection and has made a step
C24_Witness ==
  \E h \in Handles :
    /\ last[h].op = "cond_push" /\ last[h].rc = MaxCond
    /\ Connected(client_sockfd[h]) /\ socks[client_sockfd[h]].kind = "scan"
    /\ hist[h] # <<>>

\* the handle has no open scan: no call was made on it yet, or the last call
\* was an rnd_init that failed, or an rnd_end
ClosedScan(h) ==
  \/ last[h].op = "none"
  \/ last[h].op = "rnd_init" /\ last[h].rc # 0
  \/ last[h].op = "rnd_end"

\* C25: a scan step on a handle that has no open scan sends no byte on any
\* connection and returns the failure code.
C25_StepOnClosedScanFails ==
  [][\A h \in Handles :
       (ClosedScan(h) /\ ScanStepOf(h))
         => (io'[h].sent = <<>> /\ last'[h].rc = Fail)]_vars

\* C26: the code write_row returned is the one it returns on the same received
\* bytes whatever recvbuf held before the recv.
C26_WriteResultFromReceivedBytes ==
  \A h \in Handles :
    (last[h].op = "write_row" /\ io[h].readlen >= 1) =>
      \A stale \in StaleMems(RecvBufSize) :
        write_row_rc(Store(stale, io[h].got, io[h].readlen), io[h].readlen)
          = last[h].rc

\* C27: the code rnd_next returned is the one it returns on the same received
\* bytes whatever the host's buffer held before the recv.
C27_StepResultFromReceivedBytes ==
  \A h \in Handles :
    (last[h].op = "rnd_next" /\ io[h].readlen >= 1) =>
      \A stale \in StaleMems(MemLen(reclength)) :
        rnd_next_rc(Store(stale, io[h].got, io[h].readlen), io[h].readlen)
          = last[h].rc

=============================================================================
